---- MODULE Spec2Model ----
(***************************************************************************)
(* datajoint/fetch.py: Fetch.__call__, Fetch1.__call__ and their helpers.  *)
(*                                                                         *)
(* Python strings are sequences of one-character strings, so that the      *)
(* regular expressions of _flatten_attribute_list are matched character by *)
(* character.  Python's None for offset/limit is the empty sequence and a  *)
(* number n is <<n>>.  Every cell value is a record [t, v, sq, db]: t says *)
(* which decoder produced it ("raw": none, "unpack": blob.unpack, "ext":   *)
(* external_table.get), so the decoders are never the identity.            *)
(***************************************************************************)
EXTENDS Integers, Sequences, FiniteSets, TLC

VARIABLES heading,       \* expression.heading: sequence of attribute descriptors
          nrows,         \* number of rows of the backing table
          fetch_format,  \* config['fetch_format']
          last           \* the last call made: [op, args, res]

vars == <<heading, nrows, fetch_format, last>>

(* ------------------------------ bounds -------------------------------- *)
MaxRows == 3
MaxAttrs == 2
MaxOrderLen == 2

(* ------------------------------ strings ------------------------------- *)
None == <<>>
Some(n) == <<n>>

s_KEY == <<"K", "E", "Y">>
s_ASC == <<"A", "S", "C">>
s_DESC == <<"D", "E", "S", "C">>
s_sp_DESC == <<" ">> \o s_DESC
s_sp_ASC == <<" ">> \o s_ASC
n_id == <<"i", "d">>
n_k == <<"k">>
n_b == <<"b">>
n_x == <<"x">>
n_xb == <<"x", "b">>

\* the class `key`, an object that is no string
key == <<"<class 'key'>">>

WhiteSpace == {" ", "\t"}

RECURSIVE LStrip(_)
LStrip(s) == IF s # <<>> /\ Head(s) \in WhiteSpace THEN LStrip(Tail(s)) ELSE s

StartsWith(s, p) == Len(s) >= Len(p) /\ SubSeq(s, 1, Len(p)) = p
EndsWith(s, p) == Len(s) >= Len(p) /\ SubSeq(s, Len(s) - Len(p) + 1, Len(s)) = p
Drop(s, n) == SubSeq(s, n + 1, Len(s))

RECURSIVE Flatten(_)
Flatten(ss) == IF ss = <<>> THEN <<>> ELSE Head(ss) \o Flatten(Tail(ss))

SelectNames(names, S) == SelectSeq(names, LAMBDA n : n \in S)
Range(s) == {s[i] : i \in DOMAIN s}

(* --------------------------- key marker ------------------------------- *)
is_key(attr) == attr = key \/ attr = s_KEY

(* ------------------------ ordering expander --------------------------- *)
\* a plausible slip: the pattern written without its \s*
MatchKeyAscNoWhitespace(a) == a = s_KEY \/ a = s_KEY \o s_sp_ASC

\* re.match(r'^\s*KEY\s*(ASC\s*)?$', a)
MatchKeyAsc(a) ==
    LET s1 == LStrip(a)
    IN  /\ StartsWith(s1, s_KEY)
        /\ LET s2 == LStrip(Drop(s1, Len(s_KEY)))
           IN  \/ s2 = <<>>
               \/ /\ StartsWith(s2, s_ASC)
                  /\ LStrip(Drop(s2, Len(s_ASC))) = <<>>

\* re.match(r'^\s*KEY\s*DESC\s*$', a)
MatchKeyDesc(a) ==
    LET s1 == LStrip(a)
    IN  /\ StartsWith(s1, s_KEY)
        /\ LET s2 == LStrip(Drop(s1, Len(s_KEY)))
           IN  /\ StartsWith(s2, s_DESC)
               /\ LStrip(Drop(s2, Len(s_DESC))) = <<>>

RECURSIVE _flatten_attribute_list(_, _)
_flatten_attribute_list(primary_key, attr) ==
    IF attr = <<>> THEN <<>>
    ELSE LET a == Head(attr)
             out == IF MatchKeyAsc(a) THEN primary_key
                    ELSE IF MatchKeyDesc(a)
                         THEN [i \in DOMAIN primary_key |-> primary_key[i] \o s_sp_DESC]
                         ELSE <<a>>
         IN  out \o _flatten_attribute_list(primary_key, Tail(attr))

\* order_by argument: [kind |-> "none" | "str" | "list", str, list]
NoOrder == [kind |-> "none", str |-> <<>>, list |-> <<>>]
OrderStr(s) == [kind |-> "str", str |-> s, list |-> <<>>]
OrderList(l) == [kind |-> "list", str |-> <<>>, list |-> l]

ExpandOrderBy(primary_key, order_by) ==
    IF order_by.kind = "none" THEN order_by
    ELSE OrderList(_flatten_attribute_list(primary_key,
            IF order_by.kind = "str" THEN <<order_by.str>> ELSE order_by.list))

(* ---------------------- expression (collaborator) --------------------- *)
Attr(name, in_key, is_blob, is_external) ==
    [name |-> name, in_key |-> in_key, is_blob |-> is_blob,
     is_external |-> is_external, database |-> "db"]

Names(h) == [i \in DOMAIN h |-> h[i].name]
PrimaryKey(h) == Names(SelectSeq(h, LAMBDA d : d.in_key))
Descr(h, name) == h[CHOOSE i \in DOMAIN h : h[i].name = name]

\* the columns of the backing table and the stored value of row i, column n;
\* ids are not in storage order, so that ordering by the key changes the order
BaseNames == {n_id, n_k, n_b, n_x, n_xb, s_KEY}
Stored(i, n) ==
    IF n = n_id THEN (2 * i + 1) % 5
    ELSE IF n = n_k THEN i % 2
    ELSE IF n = n_b THEN 10 + i
    ELSE IF n = n_x THEN 20 + i
    ELSE IF n = n_xb THEN 30 + i
    ELSE 40 - i

Raw(n) == [t |-> "raw", v |-> n, sq |-> FALSE, db |-> ""]
\* blob.unpack(raw, squeeze=squeeze)
unpack(c, squeeze) == [t |-> "unpack", v |-> c.v, sq |-> squeeze, db |-> ""]
\* connection.schemas[database].external_table.get(hash)
external_get(database, c) == [t |-> "ext", v |-> c.v, sq |-> FALSE, db |-> database]

Expression(h, n) == [heading |-> h, rows |-> [i \in 1..n |-> i]]

\* expression.proj(*attributes): the primary key plus the named attributes
proj(expression, attributes) ==
    [expression EXCEPT !.heading =
        SelectSeq(expression.heading,
                  LAMBDA d : d.in_key \/ d.name \in Range(attributes))]

\* len(expression)
len(expression) == Len(expression.rows)

ParseTerm(t) ==
    IF EndsWith(t, s_sp_DESC)
    THEN [col |-> SubSeq(t, 1, Len(t) - Len(s_sp_DESC)), desc |-> TRUE]
    ELSE IF EndsWith(t, s_sp_ASC)
         THEN [col |-> SubSeq(t, 1, Len(t) - Len(s_sp_ASC)), desc |-> FALSE]
         ELSE [col |-> t, desc |-> FALSE]

RECURSIVE RowBefore(_, _, _)
RowBefore(i, j, terms) ==
    IF terms = <<>> THEN FALSE
    ELSE LET p == ParseTerm(Head(terms))
             a == Stored(i, p.col)
             b == Stored(j, p.col)
         IN  IF a = b THEN RowBefore(i, j, Tail(terms))
             ELSE IF p.desc THEN a > b ELSE a < b

\* expression.cursor(as_dict, limit, offset, order_by): the rows, ordered and
\* cut by LIMIT/OFFSET, each a mapping from the heading's names to raw values
cursor(expression, limit, offset, order_by) ==
    LET terms == IF order_by.kind = "none" THEN <<>> ELSE order_by.list
        bad == \E i \in DOMAIN terms : ParseTerm(terms[i]).col \notin BaseNames
        sorted == SortSeq(expression.rows, LAMBDA i, j : RowBefore(i, j, terms))
        lo == IF offset = None THEN 0 ELSE offset[1]
        hi == IF limit = None THEN Len(sorted)
              ELSE IF lo + limit[1] < Len(sorted) THEN lo + limit[1] ELSE Len(sorted)
        cut == SubSeq(sorted, lo + 1, hi)
        names == Range(Names(expression.heading))
    IN  [err |-> bad,
         rows |-> IF bad THEN <<>>
                  ELSE [r \in DOMAIN cut |-> [n \in names |-> Raw(Stored(cut[r], n))]]]

(* ------------------------------ results ------------------------------- *)
NoValue == [kind |-> "none"]
Return(value, log) == [status |-> "ok", msg |-> "", value |-> value, log |-> log]
Raise(status, msg, log) == [status |-> status, msg |-> msg, value |-> NoValue, log |-> log]

Ev(ev, name) == [ev |-> ev, name |-> name]
CursorEv(as_dict, limit, offset, order_by) ==
    [ev |-> "cursor", as_dict |-> as_dict, limit |-> limit, offset |-> offset,
     order_by |-> order_by]

Dict(keys, get) == [kind |-> "dict", keys |-> keys, get |-> get]
List(items) == [kind |-> "list", items |-> items]
Tuple(items) == [kind |-> "tuple", items |-> items]
Array(names, rows) == [kind |-> "array", names |-> names, rows |-> rows]
Restrict(f, S) == [n \in S |-> f[n]]

\* pandas.DataFrame(ret).set_index(heading.primary_key): the key columns become
\* the index and are columns no more
Frame(names, primary_key, rows) ==
    [kind |-> "frame", index |-> primary_key,
     names |-> SelectNames(names, Range(names) \ Range(primary_key)),
     rows |-> rows]

\* result[attribute] of a record array or of a frame
GetColumn(result, name) ==
    IF name \notin Range(result.names) THEN Raise("KeyError", "", <<>>)
    ELSE IF result.kind = "array"
         THEN Return([kind |-> "column",
                      values |-> [r \in DOMAIN result.rows |-> result.rows[r][name]]], <<>>)
         ELSE Return([kind |-> "series",
                      index |-> [r \in DOMAIN result.rows |->
                                    [i \in DOMAIN result.index |-> result.rows[r][result.index[i]]]],
                      values |-> [r \in DOMAIN result.rows |-> result.rows[r][name]]], <<>>)

\* result[[name, ...]] of a record array or of a frame
GetFields(result, names) ==
    IF \E i \in DOMAIN names : names[i] \notin Range(result.names)
    THEN Raise("KeyError", "", <<>>)
    ELSE Return([result EXCEPT !.names = names,
                               !.rows = [r \in DOMAIN result.rows |->
                                            Restrict(result.rows[r], Range(names))]], <<>>)

\* column[0] of a numpy column; series[0] of a pandas Series whose index is
\* the integer key column looks the LABEL 0 up in that index
First(col) ==
    IF col.kind = "column"
    THEN IF col.values = <<>> THEN Raise("IndexError", "", <<>>)
         ELSE Return(col.values[1], <<>>)
    ELSE LET hit == {r \in DOMAIN col.index : col.index[r] # <<>> /\ col.index[r][1].v = 0}
         IN  IF hit = {} THEN Raise("KeyError", "", <<>>)
             ELSE Return(col.values[CHOOSE r \in hit : TRUE], <<>>)

to_dicts(recarray) ==
    [r \in DOMAIN recarray.rows |-> Dict(recarray.names, recarray.rows[r])]

(* ----------------------------- Fetch ---------------------------------- *)
Args(attrs, offset, limit, order_by, format, as_dict, squeeze) ==
    [attrs |-> attrs, offset |-> offset, limit |-> limit, order_by |-> order_by,
     format |-> format, as_dict |-> as_dict, squeeze |-> squeeze]

\* a plausible slip: the check of format against attrs/as_dict is left out
ValidateNoFormatConflict(attrs, as_dict, format, config) ==
    IF attrs # <<>> /\ as_dict THEN "attrs_as_dict"
    ELSE IF format \notin {"None", "array", "frame"} THEN "bad_format"
    ELSE IF ~(attrs # <<>> \/ as_dict) /\ format = "None" /\ config \notin {"array", "frame"}
         THEN "bad_config"
    ELSE "ok"

Validate(attrs, as_dict, format, config) ==
    IF attrs # <<>> /\ as_dict THEN "attrs_as_dict"
    ELSE IF format # "None" /\ (as_dict \/ attrs # <<>>) THEN "format_conflict"
    ELSE IF format \notin {"None", "array", "frame"} THEN "bad_format"
    ELSE IF ~(attrs # <<>> \/ as_dict) /\ format = "None" /\ config \notin {"array", "frame"}
         THEN "bad_config"
    ELSE "ok"

\* one row of fetch(as_dict=True)
DecodeDictRow(h, d, squeeze) ==
    [n \in DOMAIN d |-> IF Descr(h, n).is_blob THEN unpack(d[n], squeeze) ELSE d[n]]

\* one row of the record array
DecodeArrayRow(h, d, squeeze) ==
    [n \in DOMAIN d |->
        IF Descr(h, n).is_external THEN external_get(Descr(h, n).database, d[n])
        ELSE IF Descr(h, n).is_blob THEN unpack(d[n], squeeze)
        ELSE d[n]]

\* the decoder calls of the dict path, row by row
DictLog(h, nr) ==
    Flatten([r \in 1..nr |->
        Flatten([i \in DOMAIN h |->
            IF h[i].is_blob THEN <<Ev("unpack", h[i].name)>> ELSE <<>>])])

\* the decoder calls of the array path, column by column
ArrayLog(h, nr) ==
    Flatten([i \in DOMAIN h |->
        IF h[i].is_external THEN [r \in 1..nr |-> Ev("get", h[i].name)]
        ELSE IF h[i].is_blob THEN [r \in 1..nr |-> Ev("unpack", h[i].name)]
        ELSE <<>>])

\* the branch `if not attrs:` of Fetch.__call__
FetchAll(expression, as_dict, limit, offset, order_by, format, squeeze, log0) ==
    LET cur == cursor(expression, limit, offset, order_by)
        h == expression.heading
        log1 == Append(log0, CursorEv(as_dict, limit, offset, order_by))
    IN  IF cur.err THEN Raise("QueryError", "", log1)
        ELSE IF as_dict
        THEN Return(List([r \in DOMAIN cur.rows |->
                            Dict(Names(h), DecodeDictRow(h, cur.rows[r], squeeze))]),
                    log1 \o DictLog(h, Len(cur.rows)))
        ELSE LET ret == Array(Names(h),
                              [r \in DOMAIN cur.rows |-> DecodeArrayRow(h, cur.rows[r], squeeze)])
                 log2 == log1 \o ArrayLog(h, Len(cur.rows))
             IN  IF format = "frame"
                 THEN Return(Frame(Names(h), PrimaryKey(h), ret.rows), log2)
                 ELSE Return(ret, log2)

\* one entry of return_values of Fetch.__call__
ReturnValue(result, primary_key, attribute) ==
    IF is_key(attribute)
    THEN LET sub == GetFields(result, primary_key)
         IN  IF sub.status # "ok" THEN sub ELSE Return(List(to_dicts(sub.value)), <<>>)
    ELSE GetColumn(result, attribute)

\* one entry of return_values of Fetch1.__call__
ReturnValue1(result, primary_key, attribute) ==
    IF is_key(attribute)
    THEN LET sub == GetFields(result, primary_key)
         IN  IF sub.status # "ok" THEN sub ELSE Return(to_dicts(sub.value)[1], <<>>)
    ELSE LET col == GetColumn(result, attribute)
         IN  IF col.status # "ok" THEN col ELSE First(col.value)

\* the first entry that raised, or 0
FirstRaise(items) ==
    IF \A i \in DOMAIN items : items[i].status = "ok" THEN 0
    ELSE CHOOSE i \in DOMAIN items :
            /\ items[i].status # "ok"
            /\ \A j \in 1..(i - 1) : items[j].status = "ok"

\* the recursive call of the attribute branch has no attrs, so the recursion
\* is one deep
RECURSIVE Fetch(_, _, _)
Fetch(expression, config, a) ==
    LET primary_key == PrimaryKey(expression.heading)
        order_by == ExpandOrderBy(primary_key, a.order_by)
        v == Validate(a.attrs, a.as_dict, a.format, config)
        format == IF ~(a.attrs # <<>> \/ a.as_dict) /\ a.format = "None"
                  THEN config ELSE a.format
        fallback == a.limit = None /\ a.offset # None
        limit == IF fallback THEN Some(2 * len(expression)) ELSE a.limit
        log0 == IF fallback THEN <<Ev("warn", <<>>), Ev("len", <<>>)>> ELSE <<>>
    IN  IF v # "ok" THEN Raise("DataJointError", v, <<>>)
        ELSE IF a.attrs = <<>>
        THEN FetchAll(expression, a.as_dict, limit, a.offset, order_by, format,
                      a.squeeze, log0)
        ELSE LET attributes == SelectSeq(a.attrs, LAMBDA x : ~is_key(x))
                 result == Fetch(proj(expression, attributes), config,
                                 Args(<<>>, a.offset, limit, order_by, "None", FALSE,
                                      a.squeeze))
                 log1 == log0 \o result.log
                 return_values == [i \in DOMAIN a.attrs |->
                                    ReturnValue(result.value, primary_key, a.attrs[i])]
                 bad == FirstRaise(return_values)
             IN  IF result.status # "ok" THEN [result EXCEPT !.log = log1]
                 ELSE IF bad # 0
                 THEN Raise(return_values[bad].status, "", log1)
                 ELSE IF Len(a.attrs) = 1 THEN Return(return_values[1].value, log1)
                 ELSE Return(List([i \in DOMAIN a.attrs |-> return_values[i].value]), log1)

(* ----------------------------- Fetch1 --------------------------------- *)
\* one row of fetch1()
DecodeFetch1Row(h, d, squeeze) ==
    [n \in DOMAIN d |->
        IF Descr(h, n).is_external THEN external_get(Descr(h, n).database, d[n])
        ELSE IF Descr(h, n).is_blob THEN unpack(d[n], squeeze)
        ELSE d[n]]

Fetch1Log(h) ==
    Flatten([i \in DOMAIN h |->
        IF h[i].is_external THEN <<Ev("get", h[i].name)>>
        ELSE IF h[i].is_blob THEN <<Ev("unpack", h[i].name)>>
        ELSE <<>>])

\* Fetch1.__call__ after the projection has been fetched
Fetch1Attrs(result, primary_key, attrs) ==
    LET return_values == [i \in DOMAIN attrs |->
                            ReturnValue1(result.value, primary_key, attrs[i])]
        bad == FirstRaise(return_values)
    IN  IF result.status # "ok" THEN result
        ELSE IF Len(result.value.rows) # 1
        THEN Raise("DataJointError", "cardinality", result.log)
        ELSE IF bad # 0 THEN Raise(return_values[bad].status, "", result.log)
        ELSE IF Len(attrs) = 1 THEN Return(return_values[1].value, result.log)
        ELSE Return(Tuple([i \in DOMAIN attrs |-> return_values[i].value]), result.log)

\* Fetch1.__call__ with no attributes, after the cursor has been executed
Fetch1Row(h, cur, squeeze, log1) ==
    IF cur.err THEN Raise("QueryError", "", log1)
    ELSE IF cur.rows = <<>> \/ h = <<>> \/ Len(cur.rows) >= 2
    THEN Raise("DataJointError", "cardinality", log1)
    ELSE Return(Dict(Names(h), DecodeFetch1Row(h, cur.rows[1], squeeze)),
                log1 \o Fetch1Log(h))

Fetch1(expression, config, attrs, squeeze) ==
    IF attrs = <<>>
    THEN Fetch1Row(expression.heading, cursor(expression, None, None, NoOrder), squeeze,
                   <<CursorEv(TRUE, None, None, NoOrder)>>)
    ELSE Fetch1Attrs(
            Fetch(proj(expression, SelectSeq(attrs, LAMBDA x : ~is_key(x))),
                  config, Args(<<>>, None, None, NoOrder, "None", FALSE, squeeze)),
            PrimaryKey(expression.heading), attrs)

(* ------------------------- the state machine -------------------------- *)
\* id is the primary key; b, x, xb cover blob, external and both
BlobHeading ==
    <<Attr(n_id, TRUE, FALSE, FALSE), Attr(n_b, FALSE, TRUE, FALSE),
      Attr(n_x, FALSE, FALSE, TRUE), Attr(n_xb, FALSE, TRUE, TRUE)>>
\* a composite primary key
CompositeHeading ==
    <<Attr(n_id, TRUE, FALSE, FALSE), Attr(n_k, TRUE, FALSE, FALSE),
      Attr(n_b, FALSE, TRUE, FALSE)>>
\* no primary key at all
KeylessHeading == <<Attr(n_b, FALSE, FALSE, FALSE)>>
\* a primary-key attribute that is itself called KEY
KeyNamedHeading ==
    <<Attr(s_KEY, TRUE, FALSE, FALSE), Attr(n_id, TRUE, FALSE, FALSE),
      Attr(n_b, FALSE, FALSE, FALSE)>>

Headings == {BlobHeading}
OrdHeadings == {BlobHeading, CompositeHeading, KeylessHeading, KeyNamedHeading}

Configs == {"array", "frame", "list"}
Formats == {"None", "array", "frame", "table"}
Offsets == {None, Some(0), Some(1)}
Limits == {None, Some(2)}

SeqsUpTo(S, n) == UNION {[1..m -> S] : m \in 0..n}

AttrChoices(h) == SeqsUpTo(Range(Names(h)) \cup {key, s_KEY}, MaxAttrs)

OrderChoices ==
    {NoOrder, OrderStr(s_KEY \o s_sp_DESC), OrderList(<<n_b \o s_sp_DESC, s_KEY>>)}

OrdTerms ==
    {s_KEY, s_KEY \o s_sp_ASC, s_KEY \o s_sp_DESC,
     <<" ">> \o s_KEY, s_KEY \o s_DESC, s_KEY \o <<" ", "\t">> \o s_ASC \o <<" ">>,
     s_KEY \o <<"S">>, <<"k", "e", "y">>, n_b, n_id \o s_sp_DESC}

OrdChoices ==
    {NoOrder} \cup {OrderStr(t) : t \in OrdTerms}
              \cup {OrderList(l) : l \in SeqsUpTo(OrdTerms, MaxOrderLen)}

NoCall == [op |-> "none",
           args |-> Args(<<>>, None, None, NoOrder, "None", FALSE, FALSE),
           res |-> Return(NoValue, <<>>)]

expression == Expression(heading, nrows)

Init ==
    /\ heading \in Headings
    /\ nrows \in 0..MaxRows
    /\ fetch_format \in Configs
    /\ last = NoCall

\* the argument lists of fetch on a heading
FetchArgs(h) ==
    {Args(attrs, offset, limit, order_by, format, as_dict, squeeze) :
        attrs \in AttrChoices(h), offset \in Offsets, limit \in Limits,
        order_by \in OrderChoices, format \in Formats,
        as_dict \in BOOLEAN, squeeze \in BOOLEAN}

\* expression.fetch(*attrs, offset=, limit=, order_by=, format=, as_dict=, squeeze=)
CallFetch ==
    /\ last.op = "none"
    /\ \E a \in FetchArgs(heading) :
          last' = [op |-> "fetch", args |-> a,
                   res |-> Fetch(expression, fetch_format, a)]
    /\ UNCHANGED <<heading, nrows, fetch_format>>

\* expression.fetch1(*attrs, squeeze=)
CallFetch1 ==
    /\ last.op = "none"
    /\ \E attrs \in AttrChoices(heading), squeeze \in BOOLEAN :
          last' = [op |-> "fetch1",
                   args |-> Args(attrs, None, None, NoOrder, "None", FALSE, squeeze),
                   res |-> Fetch1(expression, fetch_format, attrs, squeeze)]
    /\ UNCHANGED <<heading, nrows, fetch_format>>

\* the call is synchronous: the caller takes the result (or the exception) and
\* is free to call again
Finish ==
    /\ last.op # "none"
    /\ last' = NoCall
    /\ UNCHANGED <<heading, nrows, fetch_format>>

Next == CallFetch \/ CallFetch1 \/ Finish

Spec == Init /\ [][Next]_vars

\* the ordering expander exercised through fetch(order_by=...)
InitOrd ==
    /\ heading \in OrdHeadings
    /\ nrows \in 0..MaxRows
    /\ fetch_format = "array"
    /\ last = NoCall

CallFetchOrdered ==
    /\ last.op = "none"
    /\ \E order_by \in OrdChoices, attrs \in {<<>>, <<n_b>>} :
          LET a == Args(attrs, None, None, order_by, "None", FALSE, FALSE)
          IN  last' = [op |-> "fetch", args |-> a,
                       res |-> Fetch(expression, fetch_format, a)]
    /\ UNCHANGED <<heading, nrows, fetch_format>>

NextOrd == CallFetchOrdered \/ Finish

SpecOrd == InitOrd /\ [][NextOrd]_vars

(* ------------------------------ claims -------------------------------- *)
Count(log, ev) == Cardinality({i \in DOMAIN log : log[i].ev = ev})
CursorEvents(log) == SelectSeq(log, LAMBDA e : e.ev = "cursor")
IsConfigError(res) == res.status = "DataJointError" /\ res.msg # "cardinality"
IsCardinalityError(res) == res.status = "DataJointError" /\ res.msg = "cardinality"

IncompatibleOptions(a) ==
    \/ a.attrs # <<>> /\ a.as_dict
    \/ a.format # "None" /\ (a.attrs # <<>> \/ a.as_dict)
    \/ a.format \notin {"None", "array", "frame"}

\* C1: a fetch call with attributes and as_dict, or with an explicit format
\* together with attributes or as_dict, or with a format other than "array"
\* and "frame", ends in a configuration error, with no cursor executed and no
\* value returned.
C1_ConfigurationError ==
    (last.op = "fetch" /\ IncompatibleOptions(last.args)) =>
        /\ IsConfigError(last.res)
        /\ Count(last.res.log, "cursor") = 0
        /\ last.res.value = NoValue

C1_Witness ==
    /\ last.op = "fetch"
    /\ last.args.attrs = <<>> /\ last.args.as_dict /\ last.args.format = "frame"
    /\ last.args.offset # None /\ last.args.limit = None
    /\ nrows > 0
    /\ last.res.status = "DataJointError"

\* C2: with a valid configured format, fetch1 raises a cardinality error
\* exactly when the expression does not have exactly one row, with and without
\* attributes, and returns a value when it has exactly one row.
C2_ExactlyOneRow ==
    (last.op = "fetch1" /\ fetch_format \in {"array", "frame"}) =>
        /\ IsCardinalityError(last.res) <=> (nrows # 1)
        /\ (nrows = 1) => last.res.status = "ok"

\* the Row Decoder of the specification
RowDecoder(d, raw, squeeze) ==
    IF d.is_external THEN external_get(d.database, raw)
    ELSE IF d.is_blob THEN unpack(raw, squeeze)
    ELSE raw

DecodedCell(name, cell, squeeze) ==
    cell = RowDecoder(Descr(heading, name), Raw(cell.v), squeeze)

\* C3: in every output shape (array, frame, dict list, fetch1 dict) each value
\* is the Row Decoder's: external_table.get(raw) for an external attribute and
\* no unpack of it, unpack(raw, squeeze) for a blob, raw otherwise.
C3_UniformDecoding ==
    (last.op \in {"fetch", "fetch1"} /\ last.args.attrs = <<>> /\ last.res.status = "ok") =>
        LET v == last.res.value
            sq == last.args.squeeze
            rows == IF v.kind = "dict" THEN <<v.get>>
                    ELSE IF v.kind = "list" THEN [i \in DOMAIN v.items |-> v.items[i].get]
                    ELSE v.rows
        IN  /\ \A r \in DOMAIN rows : \A n \in DOMAIN rows[r] :
                    DecodedCell(n, rows[r][n], sq)
            /\ \A i \in DOMAIN last.res.log :
                    last.res.log[i].ev = "unpack" =>
                        ~Descr(heading, last.res.log[i].name).is_external

\* C4: on an expression of exactly one row, fetch1() returns a dict equal to
\* the single element of fetch(as_dict=True) with the same squeeze.
C4_Fetch1EqualsDictElement ==
    (last.op = "fetch1" /\ last.args.attrs = <<>> /\ nrows = 1) =>
        LET f == Fetch(expression, fetch_format,
                       Args(<<>>, None, None, NoOrder, "None", TRUE, last.args.squeeze))
        IN  /\ last.res.status = "ok"
            /\ f.status = "ok"
            /\ Len(f.value.items) = 1
            /\ f.value.items[1] = last.res.value

\* fetch() with no attributes and the same offset, limit and order_by
FetchNoAttrs(a) == Fetch(expression, fetch_format, [a EXCEPT !.attrs = <<>>])

\* C5: with the configured format "array" or "frame", fetch of the key marker
\* alone returns a list of one dict per result row, keyed by exactly the
\* primary key, in the row order of fetch() with no attributes.
C5_KeyMarkerList ==
    (/\ last.op = "fetch"
     /\ last.args.attrs \in {<<key>>, <<s_KEY>>}
     /\ ~last.args.as_dict /\ last.args.format = "None"
     /\ fetch_format \in {"array", "frame"}) =>
        LET ref == FetchNoAttrs(last.args)
            pk == PrimaryKey(heading)
            v == last.res.value
        IN  /\ last.res.status = "ok"
            /\ v.kind = "list"
            /\ Len(v.items) = Len(ref.value.rows)
            /\ \A r \in DOMAIN v.items :
                  /\ v.items[r].kind = "dict"
                  /\ v.items[r].keys = pk
                  /\ v.items[r].get = Restrict(ref.value.rows[r], Range(pk))

EntryHoldsColumn(entry, ref, name) ==
    /\ entry.kind \in {"column", "series"}
    /\ entry.values = [r \in DOMAIN ref.value.rows |-> ref.value.rows[r][name]]

\* C6: fetch(a1..an) returns the single per-attribute result when n = 1 and a
\* list of n results in request order when n >= 2; each entry of a named
\* attribute holds column ai of fetch() with no attributes.
C6_PerAttributeResults ==
    (/\ last.op = "fetch"
     /\ last.args.attrs # <<>>
     /\ ~last.args.as_dict /\ last.args.format = "None"
     /\ FetchNoAttrs(last.args).status = "ok") =>
        LET ref == FetchNoAttrs(last.args)
            attrs == last.args.attrs
            v == last.res.value
            entry(i) == IF Len(attrs) = 1 THEN v ELSE v.items[i]
        IN  /\ last.res.status = "ok"
            /\ Len(attrs) >= 2 => (v.kind = "list" /\ Len(v.items) = Len(attrs))
            /\ \A i \in DOMAIN attrs :
                  IF is_key(attrs[i]) THEN entry(i).kind = "list"
                  ELSE EntryHoldsColumn(entry(i), ref, attrs[i])

\* the terms of an order_by argument
Wrapped(order_by) == IF order_by.kind = "str" THEN <<order_by.str>> ELSE order_by.list

IsWhiteSpace(s) == \A i \in DOMAIN s : s[i] \in WhiteSpace

\* a is: white space, KEY, white space, then `word` followed by white space
KeyThen(a, word) ==
    \E p \in 0..Len(a), q \in 0..Len(a) :
        /\ p + Len(s_KEY) + q + Len(word) <= Len(a)
        /\ IsWhiteSpace(SubSeq(a, 1, p))
        /\ SubSeq(a, p + 1, p + Len(s_KEY)) = s_KEY
        /\ IsWhiteSpace(SubSeq(a, p + Len(s_KEY) + 1, p + Len(s_KEY) + q))
        /\ SubSeq(a, p + Len(s_KEY) + q + 1, p + Len(s_KEY) + q + Len(word)) = word
        /\ IsWhiteSpace(SubSeq(a, p + Len(s_KEY) + q + Len(word) + 1, Len(a)))

KeyAscForm(a) == KeyThen(a, <<>>) \/ KeyThen(a, s_ASC)
KeyDescForm(a) == KeyThen(a, s_DESC)
WithDesc(primary_key) == [i \in DOMAIN primary_key |-> primary_key[i] \o s_sp_DESC]

ExactTerm(primary_key, a) ==
    IF a = s_KEY \/ a = s_KEY \o s_sp_ASC THEN primary_key
    ELSE IF a = s_KEY \o s_sp_DESC THEN WithDesc(primary_key)
    ELSE <<a>>

PatternTerm(primary_key, a) ==
    IF KeyAscForm(a) THEN primary_key
    ELSE IF KeyDescForm(a) THEN WithDesc(primary_key)
    ELSE <<a>>

\* C7, as claimed: only the elements "KEY", "KEY ASC" and "KEY DESC" are
\* expanded, every other element is handed to the cursor unchanged, and no
\* such element is left in the result.
C7_ExactMarkersOnly ==
    (last.op = "fetch" /\ last.args.order_by.kind # "none") =>
        \A i \in DOMAIN last.res.log :
            last.res.log[i].ev = "cursor" =>
                LET pk == PrimaryKey(heading)
                    terms == Wrapped(last.args.order_by)
                    got == last.res.log[i].order_by
                IN  /\ got = OrderList(Flatten([j \in DOMAIN terms |-> ExactTerm(pk, terms[j])]))
                    /\ \A j \in DOMAIN got.list :
                          got.list[j] \notin {s_KEY, s_KEY \o s_sp_ASC, s_KEY \o s_sp_DESC}

\* C7, amended: an element is expanded when it is KEY, optionally followed by
\* ASC (to the primary key) or by DESC (to the primary key with " DESC"
\* appended), with any white space before, between and after; every other
\* element is kept unchanged, in the original order.  A fetch without
\* attributes hands this list to the cursor; a fetch with attributes hands the
\* same list provided no primary-key name itself has one of these forms (the
\* recursive call expands the list again).  Provided no primary-key name has
\* one of these forms, no element of these forms is left in the list.
C7_OrderingExpansion ==
    (last.op = "fetch" /\ last.args.order_by.kind # "none") =>
        \A i \in DOMAIN last.res.log :
            last.res.log[i].ev = "cursor" =>
                LET pk == PrimaryKey(heading)
                    terms == Wrapped(last.args.order_by)
                    got == last.res.log[i].order_by
                    plain == \A j \in DOMAIN pk : ~KeyAscForm(pk[j]) /\ ~KeyDescForm(pk[j])
                IN  /\ (last.args.attrs = <<>> \/ plain) =>
                          got = OrderList(Flatten([j \in DOMAIN terms |->
                                                      PatternTerm(pk, terms[j])]))
                    /\ plain =>
                          \A j \in DOMAIN got.list :
                              ~KeyAscForm(got.list[j]) /\ ~KeyDescForm(got.list[j])

C7_Witness ==
    /\ last.op = "fetch"
    /\ heading = CompositeHeading
    /\ last.args.order_by = OrderList(<<s_KEY \o s_sp_DESC, <<" ">> \o s_KEY>>)
    /\ Count(last.res.log, "cursor") = 1
    /\ CursorEvents(last.res.log)[1].order_by =
          OrderList(<<n_id \o s_sp_DESC, n_k \o s_sp_DESC, n_id, n_k>>)

\* C8: a fetch call that ends in a configuration error has made no row-count
\* query, executed no cursor and looked nothing up in the external store.
C8_ValidationBeforeQuery ==
    (last.op = "fetch" /\ IsConfigError(last.res)) =>
        /\ Count(last.res.log, "len") = 0
        /\ Count(last.res.log, "cursor") = 0
        /\ Count(last.res.log, "get") = 0

\* the options of the call are valid: compatible, and the configured format,
\* where it is the one used, is "array" or "frame"
ValidOptions(a) ==
    /\ ~IncompatibleOptions(a)
    /\ (a.attrs = <<>> /\ ~a.as_dict /\ a.format = "None") => fetch_format \in {"array", "frame"}

\* C9: with a valid configured format, a valid fetch call with offset set and
\* limit unset does not raise, warns exactly once and executes the cursor with
\* the caller's offset and limit = 2 * len(expression); any other valid call
\* does not warn, does not count the rows and hands the caller's limit and
\* offset to the cursor.
C9_OffsetWithoutLimit ==
    (/\ last.op = "fetch"
     /\ ValidOptions(last.args)
     /\ fetch_format \in {"array", "frame"}) =>
        LET a == last.args
            log == last.res.log
            cur == CursorEvents(log)
        IN  IF a.offset # None /\ a.limit = None
            THEN /\ last.res.status = "ok"
                 /\ Count(log, "warn") = 1
                 /\ Len(cur) = 1
                 /\ cur[1].offset = a.offset
                 /\ cur[1].limit = Some(2 * nrows)
            ELSE /\ Count(log, "warn") = 0
                 /\ Count(log, "len") = 0
                 /\ \A i \in DOMAIN cur : cur[i].offset = a.offset /\ cur[i].limit = a.limit

Outcome(res) == [status |-> res.status, msg |-> res.msg, value |-> res.value]

\* C10: the outcome of fetch(attrs...), of fetch1(attrs...) and of
\* fetch(as_dict=True) is the same under every value of config['fetch_format'].
C10_ConfigIndependence ==
    \A c \in Configs :
        /\ (last.op = "fetch" /\ (last.args.attrs # <<>> \/ last.args.as_dict)) =>
              Outcome(Fetch(expression, c, last.args)) = Outcome(last.res)
        /\ (last.op = "fetch1" /\ last.args.attrs # <<>>) =>
              Outcome(Fetch1(expression, c, last.args.attrs, last.args.squeeze))
                 = Outcome(last.res)

====
